---- MODULE Spec2Model ----
(***************************************************************************)
(* f1-strategy-simulator: the Strategy Projector (simulate_race), the      *)
(* per-compound estimate cache, the Historical Race Selector               *)
(* (get_last_race_without_rain) and the Degradation & Pace Estimator       *)
(* (calculate_tyre_degradation, calculate_avg_lap_time) over cleaned lap   *)
(* tables.                                                                 *)
(*                                                                         *)
(* Floats are modelled as records [nan, v]: v is the value in units of     *)
(* 1e-4 seconds (so 0.0375 s is 375), nan marks numpy's NaN, which every   *)
(* arithmetic operation propagates.                                        *)
(***************************************************************************)
EXTENDS Integers, Sequences, FiniteSets, TLC

VARIABLES
    \* ---- simulate_race (src/f1_strategy_simulator/__main__.py)
    race,               \* the race argument, a sequence of characters
    strategies,         \* the strategies argument, a sequence of Strategy records
    estimates,          \* what the helpers return per compound for this driver/race/year
    pc,                 \* position of simulate_race
    events,             \* external calls and lookups made so far, in order
    number_of_laps,
    pit_stop_time_loss,
    compounds_cache,
    tyre_degs,
    avg_lap_times,
    calls,              \* per compound: how often each helper was called
    received,           \* per (strategy index, compound): the pair written at lines 100-103
    idx,                \* index of the strategy the projection loop is at
    stint_log,          \* per processed strategy: its stint_lengths
    total_log,          \* per processed strategy: its total_race_time and pit-loss additions
    total_race_times,
    \* ---- get_last_race_without_rain (src/f1_strategy_simulator/common/helpers.py)
    seasons,            \* the telemetry provider: year -> the laps of that edition
    target,             \* the year argument of the estimator
    year,               \* the year variable of the search loop
    selPc,              \* position of the search
    queried,            \* years passed to fastf1.get_session, in order
    skipped,            \* years found wet and skipped
    cleaned_session,    \* the returned table: its year and the cleaned laps
    \* ---- calculate_tyre_degradation / calculate_avg_lap_time
    lap_kinds,          \* the selected edition's lap table: lap number -> kind of
                        \* each lap that is not a plain green lap
    compound,           \* the compound argument
    estPc,              \* which of the two estimates have been computed
    stint_deg,          \* stint -> slope, as built by the fitting loop
    fit_laps,           \* stint -> the lap numbers that entered its fit
    diagnostic,         \* whether "No valid stint data" was printed
    tyre_deg,           \* the value calculate_tyre_degradation returned
    avg_laps,           \* the lap numbers calculate_avg_lap_time averaged
    avg_lap_time        \* the value calculate_avg_lap_time returned

simVars == <<race, strategies, estimates, pc, events, number_of_laps,
             pit_stop_time_loss, compounds_cache, tyre_degs, avg_lap_times,
             calls, received, idx, stint_log, total_log, total_race_times>>
selVars == <<seasons, target, year, selPc, queried, skipped, cleaned_session>>
estVars == <<lap_kinds, compound, estPc, stint_deg, fit_laps, diagnostic,
             tyre_deg, avg_laps, avg_lap_time>>
vars == <<simVars, selVars, estVars>>

(***************************************************************************)
(* Bounds of the model.                                                    *)
(***************************************************************************)
MaxStrategies == 2      \* strategies per simulate_race call
MaxStops == 2           \* pit stops of a strategy in the single-strategy runs
LapStep == 15           \* candidate stop laps are 1, LapStep, 2*LapStep, N-1
YearsAbove == 2         \* seasons modelled above the floor season
YearsBelow == 1         \* seasons modelled below the floor season
MaxLaps == 8            \* laps of a lap table
MaxSpecial == 2         \* laps of a table that are not plain green laps

(***************************************************************************)
(* Floats.                                                                 *)
(***************************************************************************)
NaN == [nan |-> TRUE, v |-> 0]
Float(x) == [nan |-> FALSE, v |-> x]
FAdd(a, b) == IF a.nan \/ b.nan THEN NaN ELSE Float(a.v + b.v)
\* k * x for a number k and a float x; NaN * 0 is NaN
FScale(k, x) == IF x.nan THEN NaN ELSE Float(k * x.v)

EmptyDict == [k \in {} |-> TRUE]
Put(d, k, x) == (k :> x) @@ d
HasKey(d, k) == k \in DOMAIN d

(***************************************************************************)
(* common/enums.py: the reference tables and from_name.                    *)
(***************************************************************************)
RaceKeys ==
    { <<"B","A","H","R","A","I","N">>,
      <<"S","A","U","D","I","_","A","R","A","B","I","A">>,
      <<"A","U","S","T","R","A","L","I","A">>,
      <<"J","A","P","A","N">>,
      <<"C","H","I","N","A">>,
      <<"M","I","A","M","I">>,
      <<"E","M","I","L","I","A","_","R","O","M","A","G","N","A">>,
      <<"M","O","N","A","C","O">>,
      <<"C","A","N","A","D","A">>,
      <<"S","P","A","I","N">>,
      <<"A","U","S","T","R","I","A">>,
      <<"G","R","E","A","T","_","B","R","I","T","A","I","N">>,
      <<"H","U","N","G","A","R","Y">>,
      <<"B","E","L","G","I","U","M">>,
      <<"N","E","T","H","E","R","L","A","N","D","S">>,
      <<"I","T","A","L","Y">>,
      <<"A","Z","E","R","B","A","I","J","A","N">>,
      <<"S","I","N","G","A","P","O","R","E">>,
      <<"U","N","I","T","E","D","_","S","T","A","T","E","S">>,
      <<"M","E","X","I","C","O">>,
      <<"B","R","A","Z","I","L">>,
      <<"L","A","S","_","V","E","G","A","S">>,
      <<"Q","A","T","A","R">>,
      <<"A","B","U","_","D","H","A","B","I">> }

NumberOfLapsValue(key) ==
    CASE key = <<"B","A","H","R","A","I","N">> -> 57
      [] key = <<"S","A","U","D","I","_","A","R","A","B","I","A">> -> 50
      [] key = <<"A","U","S","T","R","A","L","I","A">> -> 58
      [] key = <<"J","A","P","A","N">> -> 53
      [] key = <<"C","H","I","N","A">> -> 56
      [] key = <<"M","I","A","M","I">> -> 57
      [] key = <<"E","M","I","L","I","A","_","R","O","M","A","G","N","A">> -> 63
      [] key = <<"M","O","N","A","C","O">> -> 78
      [] key = <<"C","A","N","A","D","A">> -> 70
      [] key = <<"S","P","A","I","N">> -> 66
      [] key = <<"A","U","S","T","R","I","A">> -> 71
      [] key = <<"G","R","E","A","T","_","B","R","I","T","A","I","N">> -> 52
      [] key = <<"H","U","N","G","A","R","Y">> -> 70
      [] key = <<"B","E","L","G","I","U","M">> -> 44
      [] key = <<"N","E","T","H","E","R","L","A","N","D","S">> -> 72
      [] key = <<"I","T","A","L","Y">> -> 53
      [] key = <<"A","Z","E","R","B","A","I","J","A","N">> -> 51
      [] key = <<"S","I","N","G","A","P","O","R","E">> -> 61
      [] key = <<"U","N","I","T","E","D","_","S","T","A","T","E","S">> -> 56
      [] key = <<"M","E","X","I","C","O">> -> 71
      [] key = <<"B","R","A","Z","I","L">> -> 71
      [] key = <<"L","A","S","_","V","E","G","A","S">> -> 50
      [] key = <<"Q","A","T","A","R">> -> 57
      [] key = <<"A","B","U","_","D","H","A","B","I">> -> 58

\* seconds * 1e4
PitStopTimeLossValue(key) ==
    CASE key = <<"B","A","H","R","A","I","N">> -> 250000
      [] key = <<"S","A","U","D","I","_","A","R","A","B","I","A">> -> 210000
      [] key = <<"A","U","S","T","R","A","L","I","A">> -> 180000
      [] key = <<"J","A","P","A","N">> -> 230000
      [] key = <<"C","H","I","N","A">> -> 230000
      [] key = <<"M","I","A","M","I">> -> 230000
      [] key = <<"E","M","I","L","I","A","_","R","O","M","A","G","N","A">> -> 300000
      [] key = <<"M","O","N","A","C","O">> -> 240000
      [] key = <<"C","A","N","A","D","A">> -> 240000
      [] key = <<"S","P","A","I","N">> -> 220000
      [] key = <<"A","U","S","T","R","I","A">> -> 220000
      [] key = <<"G","R","E","A","T","_","B","R","I","T","A","I","N">> -> 290000
      [] key = <<"H","U","N","G","A","R","Y">> -> 220000
      [] key = <<"B","E","L","G","I","U","M">> -> 230000
      [] key = <<"N","E","T","H","E","R","L","A","N","D","S">> -> 210000
      [] key = <<"I","T","A","L","Y">> -> 240000
      [] key = <<"A","Z","E","R","B","A","I","J","A","N">> -> 200000
      [] key = <<"S","I","N","G","A","P","O","R","E">> -> 290000
      [] key = <<"U","N","I","T","E","D","_","S","T","A","T","E","S">> -> 240000
      [] key = <<"M","E","X","I","C","O">> -> 230000
      [] key = <<"B","R","A","Z","I","L">> -> 250000
      [] key = <<"L","A","S","_","V","E","G","A","S">> -> 210000
      [] key = <<"Q","A","T","A","R">> -> 230000
      [] key = <<"A","B","U","_","D","H","A","B","I">> -> 220000

upper(ch) ==
    CASE ch = "a" -> "A"
      [] ch = "b" -> "B"
      [] ch = "c" -> "C"
      [] ch = "d" -> "D"
      [] ch = "e" -> "E"
      [] ch = "f" -> "F"
      [] ch = "g" -> "G"
      [] ch = "h" -> "H"
      [] ch = "i" -> "I"
      [] ch = "j" -> "J"
      [] ch = "k" -> "K"
      [] ch = "l" -> "L"
      [] ch = "m" -> "M"
      [] ch = "n" -> "N"
      [] ch = "o" -> "O"
      [] ch = "p" -> "P"
      [] ch = "q" -> "Q"
      [] ch = "r" -> "R"
      [] ch = "s" -> "S"
      [] ch = "t" -> "T"
      [] ch = "u" -> "U"
      [] ch = "v" -> "V"
      [] ch = "w" -> "W"
      [] ch = "x" -> "X"
      [] ch = "y" -> "Y"
      [] ch = "z" -> "Z"
      [] OTHER -> ch
\* race.replace(" ", "_").upper()
race_key(r) == [i \in 1..Len(r) |-> upper(IF r[i] = " " THEN "_" ELSE r[i])]

\* NumberOfLaps.from_name: the value, or ValueError("Race not found")
NumberOfLaps_from_name(r) ==
    IF race_key(r) \in RaceKeys
    THEN [raised |-> FALSE, value |-> NumberOfLapsValue(race_key(r))]
    ELSE [raised |-> TRUE, value |-> 0]

\* PitStopTimeLoss.from_name: the value, or ValueError("Race not found")
PitStopTimeLoss_from_name(r) ==
    IF race_key(r) \in RaceKeys
    THEN [raised |-> FALSE, value |-> PitStopTimeLossValue(race_key(r))]
    ELSE [raised |-> TRUE, value |-> 0]

(***************************************************************************)
(* __main__.py: Strategy, the per-compound cache, the projection.          *)
(***************************************************************************)
Range(s) == {s[i] : i \in 1..Len(s)}
Min(a, b) == IF a < b THEN a ELSE b

Strategy(n, stops, cs) == [name |-> n, stop_laps |-> stops, compounds |-> cs]

\* compound not in compounds_cache (line 90), negated
in_cache_never(cache, c) == FALSE
in_cache(cache, c) == c \in DOMAIN cache

\* lines 90-103: the body of the inner loop, for compound c of strategy i.
\* The helpers are deterministic in (driver, race, year, compound): a call
\* for compound c returns estimates[c].
cache_compound(st, i, name, c) ==
    LET hit == in_cache(st.compounds_cache, c)
        cache == IF hit THEN st.compounds_cache
                 ELSE Put(st.compounds_cache, c,
                          [TYRE_DEG |-> estimates[c].deg,
                           AVG_LAP_TIME |-> estimates[c].avg])
    IN  [compounds_cache |-> cache,
         calls |-> IF hit THEN st.calls
                   ELSE [st.calls EXCEPT ![c] = [deg |-> @.deg + 1, avg |-> @.avg + 1]],
         tyre_degs |-> Put(st.tyre_degs, name,
                           Put(st.tyre_degs[name], c, cache[c].TYRE_DEG)),
         avg_lap_times |-> Put(st.avg_lap_times, name,
                               Put(st.avg_lap_times[name], c, cache[c].AVG_LAP_TIME)),
         received |-> st.received \cup
                      {[i |-> i, compound |-> c, deg |-> cache[c].TYRE_DEG,
                        avg |-> cache[c].AVG_LAP_TIME]}]

\* line 89: for compound in set(strategy.compounds). The iteration order of
\* a set does not change what the body leaves behind.
RECURSIVE compound_loop(_, _, _, _)
compound_loop(st, i, name, cs) ==
    IF cs = {} THEN st
    ELSE LET c == CHOOSE x \in cs : TRUE
         IN  compound_loop(cache_compound(st, i, name, c), i, name, cs \ {c})

\* lines 84-103: for strategy in strategies, from the i-th on
RECURSIVE strategy_loop(_, _)
strategy_loop(st, i) ==
    IF i > Len(strategies) THEN st
    ELSE LET s == strategies[i]
             st1 == [st EXCEPT !.tyre_degs = Put(@, s.name, EmptyDict),
                               !.avg_lap_times = Put(@, s.name, EmptyDict)]
         IN  strategy_loop(compound_loop(st1, i, s.name, Range(s.compounds)), i + 1)

\* lines 76-105
calculate_tyre_degradation_and_avg_lap_times ==
    strategy_loop([compounds_cache |-> EmptyDict,
                   calls |-> [c \in DOMAIN estimates |-> [deg |-> 0, avg |-> 0]],
                   tyre_degs |-> EmptyDict,
                   avg_lap_times |-> EmptyDict,
                   received |-> {}], 1)

\* line 111; stint_len * (stint_len - 1) is even, so the division is exact
calculate_total_stint_time(avg, deg, stint_len) ==
    FAdd(FScale(stint_len, avg), FScale((stint_len * (stint_len - 1)) \div 2, deg))

\* [0] + stop_laps[:-1]
prev_laps(stop_laps) == <<0>> \o SubSeq(stop_laps, 1, Len(stop_laps) - 1)

\* lines 52-57 with every stint measured from lap 0
stint_lengths_from_zero(stop_laps, n) ==
    [i \in 1..Len(stop_laps) |-> stop_laps[i]]
    \o <<IF stop_laps # <<>> THEN n - stop_laps[Len(stop_laps)] ELSE n>>
\* lines 52-57
stint_lengths(stop_laps, n) ==
    [i \in 1..Len(stop_laps) |-> stop_laps[i] - prev_laps(stop_laps)[i]]
    \o <<IF stop_laps # <<>> THEN n - stop_laps[Len(stop_laps)] ELSE n>>

\* line 69 without its condition
is_not_final_stint_always(i, lens) == TRUE
\* line 69: i != len(stint_lengths) - 1, with i counted from 1 here
is_not_final_stint(i, lens) == i # Len(lens)

\* lines 60-70: the loop over zip(compounds, stint_lengths), from the i-th
\* pair on. acc.ok turns FALSE at the first KeyError of the table lookups.
RECURSIVE stint_loop(_, _, _, _)
stint_loop(s, lens, i, acc) ==
    IF i > Min(Len(s.compounds), Len(lens)) THEN acc
    ELSE LET c == s.compounds[i]
         IN  IF ~(HasKey(avg_lap_times, s.name) /\ HasKey(avg_lap_times[s.name], c))
             THEN [acc EXCEPT !.ok = FALSE]
             ELSE LET t == calculate_total_stint_time(
                               avg_lap_times[s.name][c], tyre_degs[s.name][c], lens[i])
                      sum == FAdd(acc.total, t)
                      pit == is_not_final_stint(i, lens)
                  IN  stint_loop(s, lens, i + 1,
                          [ok |-> TRUE,
                           total |-> IF pit THEN FAdd(sum, Float(pit_stop_time_loss))
                                     ELSE sum,
                           pit_adds |-> acc.pit_adds + (IF pit THEN 1 ELSE 0)])

(***************************************************************************)
(* Inputs of simulate_race.                                                *)
(***************************************************************************)
Compounds == {"MEDIUM", "HARD"}
StrategyNames == {"one-stop", "alt"}
RaceNames == { <<"N","e","t","h","e","r","l","a","n","d","s">>,
               <<"a","b","u"," ","d","h","a","b","i">>,
               <<"A","t","l","a","n","t","i","s">> }
KnownRaceNames == {r \in RaceNames : race_key(r) \in RaceKeys}

\* pace and degradation of a compound as the helpers return them, in 1e-4 s
\* (90.0 and 0.05 for MEDIUM, 91.0 and 0.03 for HARD)
SamplePace(c) == IF c = "MEDIUM" THEN 900000 ELSE 910000
SampleDeg(c) == IF c = "MEDIUM" THEN 500 ELSE 300

\* what the two helpers can return for a compound: no lap of it at all, laps
\* but no stint long enough to fit, or both estimates defined
EstimateOptions(c) ==
    { [deg |-> NaN, avg |-> NaN],
      [deg |-> NaN, avg |-> Float(SamplePace(c))],
      [deg |-> Float(SampleDeg(c)), avg |-> Float(SamplePace(c))] }
EstimateWorlds == {e \in [Compounds -> UNION {EstimateOptions(c) : c \in Compounds}] :
                     \A c \in Compounds : e[c] \in EstimateOptions(c)}

SeqsUpTo(S, n) == UNION {[1..k -> S] : k \in 0..n}

\* strategies of the multi-strategy runs: no stop, or one stop at LapStep
SimpleStrategies ==
    {Strategy(n, <<>>, <<c>>) : n \in StrategyNames, c \in Compounds}
    \cup {Strategy(n, <<LapStep>>, <<c1, c2>>) :
            n \in StrategyNames, c1 \in Compounds, c2 \in Compounds}

\* strictly increasing stop laps, each in [1, n)
StopLapCandidates(n) == {l \in {1, LapStep, 2 * LapStep, n - 1} : 1 <= l /\ l < n}
StopLapLists(n) ==
    {s \in SeqsUpTo(StopLapCandidates(n), MaxStops) :
        \A i \in 1..(Len(s) - 1) : s[i] < s[i + 1]}
\* the valid strategies of a race of n laps
ValidStrategies(n) ==
    UNION {{Strategy("two-stop", stops, cs) : cs \in [1..(Len(stops) + 1) -> Compounds]} :
              stops \in StopLapLists(n)}

(***************************************************************************)
(* simulate_race, lines 33-73.                                             *)
(***************************************************************************)
SimStart ==
    /\ estimates \in EstimateWorlds
    /\ pc = "start"
    /\ events = <<>>
    /\ number_of_laps = 0
    /\ pit_stop_time_loss = 0
    /\ compounds_cache = EmptyDict
    /\ tyre_degs = EmptyDict
    /\ avg_lap_times = EmptyDict
    /\ calls = [c \in Compounds |-> [deg |-> 0, avg |-> 0]]
    /\ received = {}
    /\ idx = 0
    /\ stint_log = <<>>
    /\ total_log = <<>>
    /\ total_race_times = EmptyDict

\* a call with any race name and up to MaxStrategies strategies
SimInit ==
    /\ race \in RaceNames
    /\ strategies \in SeqsUpTo(SimpleStrategies, MaxStrategies)
    /\ SimStart

\* a call with a known race and one valid strategy of up to MaxStops stops
ProjectorInit ==
    /\ race \in KnownRaceNames
    /\ strategies \in {<<s>> : s \in ValidStrategies(NumberOfLaps_from_name(race).value)}
    /\ SimStart

\* lines 33-34: the session is requested and loaded; the provider may fail
LoadSession ==
    /\ pc = "start"
    /\ \/ /\ events' = events \o <<"fastf1.get_session", "session.load">>
          /\ pc' = "session_loaded"
       \/ /\ events' = events \o <<"fastf1.get_session">>
          /\ pc' = "raised_upstream"
    /\ UNCHANGED <<race, strategies, estimates, number_of_laps, pit_stop_time_loss,
                   compounds_cache, tyre_degs, avg_lap_times, calls, received, idx,
                   stint_log, total_log, total_race_times>>
    /\ UNCHANGED <<selVars, estVars>>

\* lines 36-37
LookupConstants ==
    /\ pc = "session_loaded"
    /\ events' = events \o <<"NumberOfLaps.from_name">>
                 \o (IF NumberOfLaps_from_name(race).raised THEN <<>>
                     ELSE <<"PitStopTimeLoss.from_name">>)
    /\ IF NumberOfLaps_from_name(race).raised \/ PitStopTimeLoss_from_name(race).raised
       THEN /\ pc' = "raised_race_not_found"
            /\ UNCHANGED <<number_of_laps, pit_stop_time_loss>>
       ELSE /\ pc' = "constants"
            /\ number_of_laps' = NumberOfLaps_from_name(race).value
            /\ pit_stop_time_loss' = PitStopTimeLoss_from_name(race).value
    /\ UNCHANGED <<race, strategies, estimates, compounds_cache, tyre_degs,
                   avg_lap_times, calls, received, idx, stint_log, total_log,
                   total_race_times>>
    /\ UNCHANGED <<selVars, estVars>>

\* lines 40-44
Estimate ==
    /\ pc = "constants"
    /\ LET st == calculate_tyre_degradation_and_avg_lap_times
       IN  /\ compounds_cache' = st.compounds_cache
           /\ tyre_degs' = st.tyre_degs
           /\ avg_lap_times' = st.avg_lap_times
           /\ calls' = st.calls
           /\ received' = st.received
    /\ events' = events \o <<"calculate_tyre_degradation_and_avg_lap_times">>
    /\ idx' = 1
    /\ pc' = "projecting"
    /\ UNCHANGED <<race, strategies, estimates, number_of_laps, pit_stop_time_loss,
                   stint_log, total_log, total_race_times>>
    /\ UNCHANGED <<selVars, estVars>>

\* lines 45-71: one pass of the loop over the strategies
ProjectStrategy ==
    /\ pc = "projecting"
    /\ idx <= Len(strategies)
    /\ LET s == strategies[idx]
           lens == stint_lengths(s.stop_laps, number_of_laps)
           out == stint_loop(s, lens, 1, [ok |-> TRUE, total |-> Float(0), pit_adds |-> 0])
       IN  IF out.ok
           THEN /\ total_race_times' = Put(total_race_times, s.name, out.total)
                /\ stint_log' = Append(stint_log, lens)
                /\ total_log' = Append(total_log,
                                       [total |-> out.total, pit_adds |-> out.pit_adds])
                /\ idx' = idx + 1
                /\ pc' = pc
           ELSE /\ pc' = "raised_key_error"
                /\ UNCHANGED <<total_race_times, stint_log, total_log, idx>>
    /\ UNCHANGED <<race, strategies, estimates, events, number_of_laps,
                   pit_stop_time_loss, compounds_cache, tyre_degs, avg_lap_times,
                   calls, received>>
    /\ UNCHANGED <<selVars, estVars>>

\* line 73
Return ==
    /\ pc = "projecting"
    /\ idx > Len(strategies)
    /\ pc' = "returned"
    /\ UNCHANGED <<race, strategies, estimates, events, number_of_laps,
                   pit_stop_time_loss, compounds_cache, tyre_degs, avg_lap_times,
                   calls, received, idx, stint_log, total_log, total_race_times>>
    /\ UNCHANGED <<selVars, estVars>>

SimNext == LoadSession \/ LookupConstants \/ Estimate \/ ProjectStrategy \/ Return

(***************************************************************************)
(* cleaner/clean_one_race.py and TrackStatus.expand_statuses.              *)
(*                                                                         *)
(* A raw lap carries the provider's fields; PitInTime/PitOutTime say       *)
(* whether the timestamp is present, LapTime is NaN when it is missing,    *)
(* TrackStatus is the status string as a sequence of characters.           *)
(***************************************************************************)
RawLap(driver, n, stint, comp, status, pit_in, pit_out, lap_time, span) ==
    [Driver |-> driver, LapNumber |-> n, Stint |-> stint, Compound |-> comp,
     TrackStatus |-> status, PitInTime |-> pit_in, PitOutTime |-> pit_out,
     LapTime |-> lap_time, TelemetrySpan |-> span]

\* enums.py lines 24-25: str(status.value) in code, as 0 or 1
status_flag(digit, code) == IF \E i \in 1..Len(code) : code[i] = digit THEN 1 ELSE 0

\* clean_one_race.py lines 28-40, 54 and 66-74, for one lap (tyre_life and
\* position are carried along unread and left out)
clean_lap(l) ==
    [driver |-> l.Driver,
     lap_number |-> l.LapNumber,
     lap_time_s |-> l.LapTime,
     stint |-> l.Stint,
     compound |-> l.Compound,
     pit_stop_in_lap |-> l.PitInTime,
     pit_stop_out_lap |-> l.PitOutTime,
     GREEN |-> status_flag("1", l.TrackStatus),
     YELLOW |-> status_flag("2", l.TrackStatus),
     SAFETY_CAR |-> status_flag("4", l.TrackStatus),
     RED_FLAG |-> status_flag("5", l.TrackStatus),
     VIRTUAL_SAFETY_CAR |-> status_flag("6", l.TrackStatus),
     VSC_ENDING |-> status_flag("7", l.TrackStatus),
     lap_time_approx_s |-> IF l.LapTime.nan THEN Float(l.TelemetrySpan) ELSE l.LapTime]

\* clean_one_race.py lines 23-48
clean_race_data(laps, driver) ==
    {clean_lap(l) : l \in {x \in laps : driver = "" \/ x.Driver = driver}}

(***************************************************************************)
(* helpers.py: get_last_race_without_rain, lines 66-90.                    *)
(***************************************************************************)
FloorYear == 1950
MinYear == FloorYear - YearsBelow
MaxYear == FloorYear + YearsAbove
Years == MinYear..MaxYear
Driver == "VER"

\* line 76 with the intermediate compound forgotten
wet_compounds_only_wet == {"WET"}
\* line 76
wet_compounds == {"INTERMEDIATE", "WET"}

\* line 81: driver_laps_previous_year['Compound'].isin(wet_compounds).any()
any_wet(laps) == \E l \in laps : l.Compound \in wet_compounds

\* the editions the provider can hold for a year: dry, wet for another driver
\* only, wet for everyone, or not available at all
PlainLap(driver, n, comp) ==
    RawLap(driver, n, 1, comp, <<"1">>, FALSE, FALSE, Float(900000), 900000)
SeasonKinds ==
    { [available |-> TRUE,
       laps |-> {PlainLap("VER", 1, "SOFT"), PlainLap("HAM", 1, "HARD")}],
      [available |-> TRUE,
       laps |-> {PlainLap("VER", 1, "SOFT"), PlainLap("HAM", 1, "INTERMEDIATE")}],
      [available |-> TRUE,
       laps |-> {PlainLap("VER", 1, "WET"), PlainLap("HAM", 1, "WET")}],
      [available |-> FALSE, laps |-> {}] }

SelInit ==
    /\ seasons \in [Years -> SeasonKinds]
    /\ target \in (MinYear + 1)..(MaxYear + 1)
    /\ year = 0
    /\ selPc = "idle"
    /\ queried = <<>>
    /\ skipped = {}
    /\ cleaned_session = [year |-> 0, laps |-> {}]

\* lines 24 and 122: the estimators start the search at year - 1
CallSelector ==
    /\ selPc = "idle"
    /\ year' = target - 1
    /\ selPc' = "searching"
    /\ UNCHANGED <<seasons, target, queried, skipped, cleaned_session>>
    /\ UNCHANGED <<simVars, estVars>>

\* lines 78-79 when the provider cannot supply the edition: the error
\* propagates. The model holds no season outside Years.
ProviderFails ==
    /\ selPc = "searching"
    /\ year \in Years
    /\ ~seasons[year].available
    /\ queried' = Append(queried, year)
    /\ selPc' = "raised_upstream"
    /\ UNCHANGED <<seasons, target, year, skipped, cleaned_session>>
    /\ UNCHANGED <<simVars, estVars>>

\* lines 78-82: a wet edition is skipped
SkipWetSeason ==
    /\ selPc = "searching"
    /\ year \in Years
    /\ seasons[year].available
    /\ any_wet(seasons[year].laps)
    /\ queried' = Append(queried, year)
    /\ skipped' = skipped \cup {year}
    /\ year' = year - 1
    /\ UNCHANGED <<seasons, target, selPc, cleaned_session>>
    /\ UNCHANGED <<simVars, estVars>>

\* lines 78-81 and 83-90: a dry edition is cleaned and returned
ReturnCleaned ==
    /\ selPc = "searching"
    /\ year \in Years
    /\ seasons[year].available
    /\ ~any_wet(seasons[year].laps)
    /\ queried' = Append(queried, year)
    /\ cleaned_session' = [year |-> year,
                           laps |-> clean_race_data(seasons[year].laps, Driver)]
    /\ selPc' = "returned"
    /\ UNCHANGED <<seasons, target, year, skipped>>
    /\ UNCHANGED <<simVars, estVars>>

SelNext == CallSelector \/ ProviderFails \/ SkipWetSeason \/ ReturnCleaned

(***************************************************************************)
(* helpers.py: calculate_tyre_degradation (12-63) and                      *)
(* calculate_avg_lap_time (111-126), on the laps of the selected edition.  *)
(***************************************************************************)
FuelCorrection == 375       \* 0.0375 s
MinFitLaps == 3

\* lines 27-34 without the VSC_ENDING column
lap_mask_without_vsc_ending(l, c) ==
    /\ l.compound = c
    /\ l.RED_FLAG = 0
    /\ l.YELLOW = 0
    /\ l.SAFETY_CAR = 0
    /\ l.VIRTUAL_SAFETY_CAR = 0
\* lines 27-34
lap_mask(l, c) ==
    /\ l.compound = c
    /\ l.RED_FLAG = 0
    /\ l.YELLOW = 0
    /\ l.SAFETY_CAR = 0
    /\ l.VIRTUAL_SAFETY_CAR = 0
    /\ l.VSC_ENDING = 0

\* lines 38-40
not_in_out_or_first(l) ==
    ~l.pit_stop_in_lap /\ ~l.pit_stop_out_lap /\ l.lap_number # 1

\* lines 35-40
compound_laps(cleaned, c) ==
    {l \in {x \in cleaned : lap_mask(x, c)} : not_in_out_or_first(l)}

\* the sum of the values of a function with a finite domain
RECURSIVE SumFn(_)
SumFn(f) ==
    IF DOMAIN f = {} THEN 0
    ELSE LET x == CHOOSE y \in DOMAIN f : TRUE
         IN  f[x] + SumFn([y \in DOMAIN f \ {x} |-> f[y]])

\* stats.linregress(lap_number, lap_time_approx_s).slope, in 1e-4 s per lap,
\* rounded down; NaN when a lap time is NaN or all x are equal
linregress_slope(laps) ==
    LET n == Cardinality(laps)
        sx == SumFn([l \in laps |-> l.lap_number])
        sy == SumFn([l \in laps |-> l.lap_time_approx_s.v])
        sxy == SumFn([l \in laps |-> l.lap_number * l.lap_time_approx_s.v])
        sxx == SumFn([l \in laps |-> l.lap_number * l.lap_number])
        num == n * sxy - sx * sy
        den == n * sxx - sx * sx
    IN  IF den = 0 \/ \E l \in laps : l.lap_time_approx_s.nan THEN NaN
        ELSE Float(num \div den)

\* lines 43-49: the stints of the loop that are fitted, each with its laps
fitted_stints(laps) ==
    LET stints == {l.stint : l \in laps}
        sizes == [s \in stints |-> Cardinality({l \in laps : l.stint = s})]
    IN  [s \in {t \in stints : ~(sizes[t] < MinFitLaps)} |-> {l \in laps : l.stint = s}]

\* np.mean of a non-empty list of floats, rounded down
mean(values) ==
    IF \E i \in DOMAIN values : values[i].nan THEN NaN
    ELSE Float(SumFn([i \in DOMAIN values |-> values[i].v])
               \div Cardinality(DOMAIN values))

\* lines 57-63
degradation_of(deg) ==
    LET avg_deg == IF Cardinality(DOMAIN deg) = 0 THEN NaN ELSE mean(deg)
    IN  FAdd(avg_deg, Float(FuelCorrection))

\* lines 124-125
stint_laps(cleaned, c) == {l \in cleaned : l.compound = c}

\* stint_laps['lap_time_approx_s'].mean(): NaN values are skipped, NaN when
\* nothing is left
series_mean(laps) ==
    LET present == {l \in laps : ~l.lap_time_approx_s.nan}
    IN  IF present = {} THEN NaN
        ELSE Float(SumFn([l \in present |-> l.lap_time_approx_s.v])
                   \div Cardinality(present))

\* ---- lap tables: MaxLaps laps of the driver, plain green HARD laps but for
\* at most MaxSpecial of them; a lap after a pit-in lap starts the next stint
SpecialKinds == {"medium", "pit_in", "pit_out", "yellow", "safety_car", "red_flag",
                 "vsc", "vsc_ending", "no_time"}
KindStatus(k) ==
    CASE k = "yellow" -> <<"1", "2">>
      [] k = "safety_car" -> <<"4">>
      [] k = "red_flag" -> <<"5">>
      [] k = "vsc" -> <<"6">>
      [] k = "vsc_ending" -> <<"7">>
      [] OTHER -> <<"1">>
TableLap(n, k, stint) ==
    RawLap(Driver, n, stint,
           IF k = "medium" THEN "MEDIUM" ELSE "HARD",
           KindStatus(k), k = "pit_in", k = "pit_out",
           IF k = "no_time" THEN NaN
           ELSE Float(900000 + 1000 * n + (IF k \in {"safety_car", "vsc"} THEN 300000 ELSE 0)),
           905000)
LapTable(special) ==
    {TableLap(n,
              IF n \in DOMAIN special THEN special[n] ELSE "plain",
              1 + Cardinality({m \in DOMAIN special : m < n /\ special[m] = "pit_in"})) :
        n \in 1..MaxLaps}
LapKinds ==
    UNION {[S -> SpecialKinds] :
              S \in {T \in SUBSET (1..MaxLaps) : Cardinality(T) <= MaxSpecial}}
\* the requested driver's raw laps of the selected edition
raw_laps == LapTable(lap_kinds)

EstInit ==
    /\ lap_kinds \in LapKinds
    /\ compound \in {"HARD", "MEDIUM"}
    /\ estPc = "start"
    /\ stint_deg = EmptyDict
    /\ fit_laps = EmptyDict
    /\ diagnostic = FALSE
    /\ tyre_deg = NaN
    /\ avg_laps = {}
    /\ avg_lap_time = NaN

\* calculate_tyre_degradation, lines 24-63 (__main__.py line 92)
CalculateTyreDegradation ==
    /\ estPc = "start"
    /\ LET fitted == fitted_stints(
                         compound_laps(clean_race_data(raw_laps, Driver), compound))
       IN  /\ fit_laps' = [s \in DOMAIN fitted |-> {l.lap_number : l \in fitted[s]}]
           /\ stint_deg' = [s \in DOMAIN fitted |-> linregress_slope(fitted[s])]
    /\ diagnostic' = (Cardinality(DOMAIN stint_deg') = 0)
    /\ tyre_deg' = degradation_of(stint_deg')
    /\ estPc' = "degradation"
    /\ UNCHANGED <<lap_kinds, compound, avg_laps, avg_lap_time>>
    /\ UNCHANGED <<simVars, selVars>>

\* calculate_avg_lap_time, lines 122-126 (__main__.py line 95)
CalculateAvgLapTime ==
    /\ estPc = "degradation"
    /\ LET cleaned == clean_race_data(raw_laps, Driver)
           laps == stint_laps(cleaned, compound)
       IN  /\ avg_laps' = {l.lap_number : l \in laps}
           /\ avg_lap_time' = series_mean(laps)
    /\ estPc' = "done"
    /\ UNCHANGED <<lap_kinds, compound, stint_deg, fit_laps, diagnostic, tyre_deg>>
    /\ UNCHANGED <<simVars, selVars>>

EstNext == CalculateTyreDegradation \/ CalculateAvgLapTime

(***************************************************************************)
(* Specifications.                                                         *)
(***************************************************************************)
SimIdle ==
    /\ race = <<>> /\ strategies = <<>> /\ estimates = EmptyDict /\ pc = "idle"
    /\ events = <<>> /\ number_of_laps = 0 /\ pit_stop_time_loss = 0
    /\ compounds_cache = EmptyDict /\ tyre_degs = EmptyDict
    /\ avg_lap_times = EmptyDict /\ calls = EmptyDict /\ received = {} /\ idx = 0
    /\ stint_log = <<>> /\ total_log = <<>> /\ total_race_times = EmptyDict
SelIdle ==
    /\ seasons = EmptyDict /\ target = 0 /\ year = 0 /\ selPc = "unused"
    /\ queried = <<>> /\ skipped = {} /\ cleaned_session = [year |-> 0, laps |-> {}]
EstIdle ==
    /\ lap_kinds = EmptyDict /\ compound = "" /\ estPc = "unused" /\ stint_deg = EmptyDict
    /\ fit_laps = EmptyDict /\ diagnostic = FALSE /\ tyre_deg = NaN
    /\ avg_laps = {} /\ avg_lap_time = NaN

\* simulate_race on up to MaxStrategies strategies
Init == SimInit /\ SelIdle /\ EstIdle
Next == SimNext
Spec == Init /\ [][Next]_vars

\* simulate_race on one valid strategy
InitProjector == ProjectorInit /\ SelIdle /\ EstIdle
SpecProjector == InitProjector /\ [][SimNext]_vars

\* the backward search for a dry edition
InitSelector == SelInit /\ SimIdle /\ EstIdle
SpecSelector == InitSelector /\ [][SelNext]_vars

\* the two estimates on a lap table
InitEstimator == EstInit /\ SimIdle /\ SelIdle
SpecEstimator == InitEstimator /\ [][EstNext]_vars

(***************************************************************************)
(* Claims about simulate_race.                                             *)
(***************************************************************************)
Estimated == pc \in {"projecting", "returned", "raised_key_error"}
Uses(s, c) == c \in Range(s.compounds)

\* C2: simulate_race never fails with a lookup error on the per-strategy
\* estimate tables, and when it returns, the result has exactly one entry per
\* input strategy, each holding the total projected for that strategy (also
\* when two strategies carry the same name).
C2_OneEntryPerStrategy ==
    /\ pc # "raised_key_error"
    /\ pc = "returned" =>
          /\ Cardinality(DOMAIN total_race_times) = Len(strategies)
          /\ \A i \in 1..Len(strategies) :
                total_race_times[strategies[i].name] = total_log[i].total

\* a valid strategy of a race of n laps: stop laps strictly increasing, each in
\* [1, n), one compound per stint
IsValid(s, n) ==
    /\ \A i \in 1..Len(s.stop_laps) : 1 <= s.stop_laps[i] /\ s.stop_laps[i] < n
    /\ \A i \in 1..(Len(s.stop_laps) - 1) : s.stop_laps[i] < s.stop_laps[i + 1]
    /\ Len(s.compounds) = Len(s.stop_laps) + 1

RECURSIVE SumSeq(_)
SumSeq(s) == IF s = <<>> THEN 0 ELSE s[1] + SumSeq(Tail(s))

\* the j-th stint length as the specification derives it
StintLengthOf(s, n, j) ==
    LET stops == s.stop_laps
        k == Len(stops)
    IN  IF k = 0 THEN n
        ELSE IF j = 1 THEN stops[1]
        ELSE IF j <= k THEN stops[j] - stops[j - 1]
        ELSE n - stops[k]

\* C3: for every valid strategy, the stint lengths simulate_race derives are
\* the first stop lap, the differences of successive stop laps and N minus
\* the last stop lap (N without stops); they are all positive, number
\* stops + 1, and sum to exactly N.
C3_StintLengthsSumToLaps ==
    \A i \in 1..Len(stint_log) :
        IsValid(strategies[i], number_of_laps) =>
            LET lens == stint_log[i]
            IN  /\ Len(lens) = Len(strategies[i].stop_laps) + 1
                /\ \A j \in 1..Len(lens) :
                      /\ lens[j] > 0
                      /\ lens[j] = StintLengthOf(strategies[i], number_of_laps, j)
                /\ SumSeq(lens) = number_of_laps

\* a two-stop strategy has been projected: stops [15, 30] of 72 laps
C3_Witness ==
    /\ Len(stint_log) = 1
    /\ strategies[1].stop_laps = <<LapStep, 2 * LapStep>>
    /\ number_of_laps = 72
    /\ stint_log[1] = <<LapStep, LapStep, 72 - 2 * LapStep>>

\* S*L + D*(S*(S-1)/2)
StintFormula(S, L, D) == FAdd(FScale(S, L), FScale((S * (S - 1)) \div 2, D))

RECURSIVE SumOfStints(_, _, _)
SumOfStints(s, n, j) ==
    IF j = 0 THEN Float(0)
    ELSE FAdd(SumOfStints(s, n, j - 1),
              StintFormula(StintLengthOf(s, n, j),
                           estimates[s.compounds[j]].avg,
                           estimates[s.compounds[j]].deg))

\* C4: for every valid strategy with k stops, the projected total is the sum
\* over its k+1 stints of S*L + D*(S*(S-1)/2) plus exactly k additions of the
\* per-stop time loss; with no stop it is L*N + D*(N*(N-1)/2) and no pit loss.
C4_TotalIsStintsPlusStops ==
    \A i \in 1..Len(total_log) :
        IsValid(strategies[i], number_of_laps) =>
            LET s == strategies[i]
                k == Len(s.stop_laps)
            IN  /\ total_log[i].pit_adds = k
                /\ total_log[i].total =
                      FAdd(SumOfStints(s, number_of_laps, k + 1),
                           Float(k * pit_stop_time_loss))
                /\ k = 0 =>
                      total_log[i].total =
                          StintFormula(number_of_laps,
                                       estimates[s.compounds[1]].avg,
                                       estimates[s.compounds[1]].deg)

\* 72 laps, pit loss 21.0 s, stops [15, 30] on MEDIUM, HARD, HARD with both
\* estimates defined: stints [15, 15, 42], two pit losses, 6613.23 s
C4_Witness ==
    /\ Len(total_log) = 1
    /\ strategies[1].stop_laps = <<15, 30>>
    /\ strategies[1].compounds = <<"MEDIUM", "HARD", "HARD">>
    /\ number_of_laps = 72
    /\ pit_stop_time_loss = 210000
    /\ stint_log[1] = <<15, 15, 42>>
    /\ total_log[1] = [total |-> Float(66132300), pit_adds |-> 2]

\* C5: an unknown race name makes from_name raise "race not found", and in
\* simulate_race that failure is the first outcome of the call: no telemetry
\* session has been requested or loaded and no estimate has been started.
C5_LookupFailsFirst ==
    /\ \A r \in RaceNames :
          race_key(r) \notin RaceKeys =>
              NumberOfLaps_from_name(r).raised /\ PitStopTimeLoss_from_name(r).raised
    /\ race_key(race) \notin RaceKeys => pc \notin {"constants", "projecting", "returned"}
    /\ pc = "raised_race_not_found" =>
          \A i \in 1..Len(events) :
              events[i] \notin {"fastf1.get_session", "session.load",
                                "calculate_tyre_degradation_and_avg_lap_times"}

\* C9: in one run each helper is called exactly once for every compound some
\* strategy references and never for another one, and every strategy
\* receives, for each compound it references, the one cached pair.
C9_ComputedOncePerCompound ==
    Estimated =>
        /\ \A c \in Compounds :
              LET n == IF \E i \in 1..Len(strategies) : Uses(strategies[i], c)
                       THEN 1 ELSE 0
              IN  calls[c] = [deg |-> n, avg |-> n]
        /\ \A i \in 1..Len(strategies) :
              \A c \in Range(strategies[i].compounds) :
                  [i |-> i, compound |-> c,
                   deg |-> compounds_cache[c].TYRE_DEG,
                   avg |-> compounds_cache[c].AVG_LAP_TIME] \in received
        /\ \A r \in received :
              /\ Uses(strategies[r.i], r.compound)
              /\ r.deg = estimates[r.compound].deg
              /\ r.avg = estimates[r.compound].avg

\* two strategies share HARD, one of them in two stints; MEDIUM is unused
C9_Witness ==
    /\ pc = "returned"
    /\ Len(strategies) = 2
    /\ strategies[1].compounds = <<"HARD", "HARD">>
    /\ strategies[2].compounds = <<"HARD">>
    /\ calls["HARD"] = [deg |-> 1, avg |-> 1]
    /\ calls["MEDIUM"] = [deg |-> 0, avg |-> 0]
    /\ Cardinality(received) = 2

\* C10: when some strategy uses a compound whose degradation is undefined
\* (NaN), simulate_race still completes, and in the mapping it returns every
\* strategy using such a compound has a NaN total while every strategy using
\* only compounds with defined estimates has a defined total.
C10_NaNPropagates ==
    (\E i \in 1..Len(strategies) : \E c \in Compounds :
         Uses(strategies[i], c) /\ estimates[c].deg.nan) =>
        /\ pc # "raised_key_error"
        /\ pc = "returned" =>
              \A i \in 1..Len(strategies) :
                  LET s == strategies[i]
                  IN  /\ (\E c \in Compounds : Uses(s, c) /\ estimates[c].deg.nan)
                             => total_race_times[s.name].nan
                      /\ (\A c \in Compounds : Uses(s, c) =>
                              ~estimates[c].deg.nan /\ ~estimates[c].avg.nan)
                             => ~total_race_times[s.name].nan

(***************************************************************************)
(* Claims about get_last_race_without_rain.                                *)
(***************************************************************************)
\* C1: the backward search never queries a season below the floor season:
\* a search whose year is below the floor ends in the "no suitable race
\* found" condition, and in no other way.
C1_SearchStopsAtFloor ==
    /\ \A i \in 1..Len(queried) : queried[i] >= FloorYear
    /\ (selPc \in {"returned", "raised_upstream"}) =>
          queried[Len(queried)] >= FloorYear

\* no lap of any driver of that edition is on an intermediate or wet tyre
WetFree(y) ==
    /\ seasons[y].available
    /\ \A l \in seasons[y].laps : l.Compound \notin {"INTERMEDIATE", "WET"}

\* C6: when the search returns, it returns the cleaned laps of the greatest
\* year below the target year whose edition is wet-free; every year between
\* the two was loaded, found wet and skipped; the years are queried in
\* strictly decreasing order and the target year is never queried.
C6_MostRecentDryEdition ==
    /\ \A i \in 1..Len(queried) :
          /\ queried[i] < target
          /\ \A j \in 1..Len(queried) : i < j => queried[i] > queried[j]
    /\ selPc = "returned" =>
          LET y == cleaned_session.year
          IN  /\ y \in Years
              /\ y <= target - 1
              /\ WetFree(y)
              /\ \A z \in Years : (z <= target - 1 /\ WetFree(z)) => z <= y
              /\ \A z \in (y + 1)..(target - 1) :
                    /\ z \in skipped
                    /\ \E i \in 1..Len(queried) : queried[i] = z
                    /\ seasons[z].available
                    /\ ~WetFree(z)
              /\ y \notin skipped
              /\ cleaned_session.laps =
                    {clean_lap(l) : l \in {x \in seasons[y].laps : x.Driver = Driver}}

\* two wet editions were skipped, one of them wet for another driver only,
\* before a dry one was returned
C6_Witness ==
    /\ selPc = "returned"
    /\ cleaned_session.year = target - 3
    /\ skipped = {target - 2, target - 1}
    /\ \E z \in skipped :
          \A l \in seasons[z].laps : l.Driver = Driver => l.Compound = "SOFT"

(***************************************************************************)
(* Claims about the two estimates.                                         *)
(***************************************************************************)
NonGreen(l) ==
    \E i \in 1..Len(l.TrackStatus) : l.TrackStatus[i] \in {"2", "4", "5", "6", "7"}
Qualifies(l) ==
    /\ l.Compound = compound
    /\ ~l.PitInTime
    /\ ~l.PitOutTime
    /\ l.LapNumber # 1
    /\ ~NonGreen(l)
QualifyingLaps(s) == {l.LapNumber : l \in {x \in raw_laps : x.Stint = s /\ Qualifies(x)}}
Stints == {l.Stint : l \in raw_laps}

\* C7: a stint contributes a slope to the averaged degradation if and only
\* if it has at least 3 qualifying laps (requested compound, no pit-in or
\* pit-out lap, not lap 1, no yellow, safety-car, VSC, VSC-ending or red
\* flag), and the laps that enter its fit are exactly its qualifying laps,
\* so that setting or clearing a flag on a lap moves it out of or into the fit.
C7_StintFitNeedsThreeLaps ==
    estPc \in {"degradation", "done"} =>
        \A s \in Stints :
            /\ s \in DOMAIN stint_deg <=> Cardinality(QualifyingLaps(s)) >= 3
            /\ s \in DOMAIN stint_deg => fit_laps[s] = QualifyingLaps(s)

\* one stint with exactly 2 qualifying laps is left out while another one is
\* fitted without its flagged lap
C7_Witness ==
    /\ estPc = "degradation"
    /\ \E s \in Stints : Cardinality(QualifyingLaps(s)) = 2 /\ s \notin DOMAIN stint_deg
    /\ \E s \in DOMAIN stint_deg :
          \E l \in raw_laps :
              /\ l.Stint = s
              /\ NonGreen(l)
              /\ l.Compound = compound /\ ~l.PitInTime /\ ~l.PitOutTime /\ l.LapNumber # 1
              /\ l.LapNumber \notin fit_laps[s]

\* C8: the laps calculate_avg_lap_time averages contain no pit-in lap, no
\* pit-out lap, not lap 1 and no lap with a non-green status flag.
C8_AverageOverGreenLaps ==
    estPc = "done" =>
        \A l \in raw_laps :
            l.LapNumber \in avg_laps =>
                /\ ~l.PitInTime
                /\ ~l.PitOutTime
                /\ l.LapNumber # 1
                /\ ~NonGreen(l)
====
